---- MODULE Spec2Model ----
(***************************************************************************)
(* Model of server.py: the ConnectionManager registry (connect,            *)
(* disconnect, broadcast under one asyncio.Lock) and the per-client        *)
(* handler websocket_broadcast.  Tasks are asyncio coroutines: a step of   *)
(* the model is the code a task runs between two suspension points         *)
(* (accept, a contended lock, send_text, receive_text, close).             *)
(***************************************************************************)
EXTENDS Integers, Sequences, FiniteSets, TLC

\* ---- bounds of the model ----
NumConn == 3        \* websockets / tasks
MaxMsgs == 2        \* inbound messages the handlers receive in one behaviour
MaxActive == 3      \* registry length reached by direct calls to the manager
MaxCalls == 4       \* direct calls to the manager in one behaviour
NumCallers == 2     \* tasks that call the manager directly

Conns == 1..NumConn
Tasks == 1..NumConn
Callers == {t \in Tasks : t <= NumCallers}
None == 0
\* the {name} each client connects with: two clients may use the same name
NameOf(t) == IF t = 2 THEN "Bob" ELSE "Alice"
Msgs == {"hi", "yo"}

VARIABLES
    active,      \* ConnectionManager.active: list of websockets
    lock,        \* task inside `async with self.lock`, or None
    waiters,     \* tasks suspended in lock.acquire(), in arrival order
    pc,          \* where each task is suspended
    ws,          \* the websocket argument of the call a task is in
    bc,          \* frame of a task's broadcast call: message, snapshot, index, to_remove
    welcome,     \* text of the welcome message a handler built
    closeAfter,  \* handler is in `except Exception` (close follows disconnect)
    peer,        \* state of the remote end of each websocket
    budget,      \* inbound messages (direct calls) the tasks may still receive (make)
    name,        \* path parameter {name} of each handler
    driver,      \* "session": tasks run websocket_broadcast; "api": tasks call the manager
    sendlog,     \* history: the send_text attempts of a task's current or last pass
    joined,      \* history: websockets whose connect completed and that no disconnect followed
    leaves,      \* history: disconnect calls each task has completed, and what the last one found
    accepted,    \* websockets whose accept() has completed
    dead,        \* history: websockets a send_text of some pass has failed on
    delivered,   \* history: per websocket, the broadcasts sent to it with success, in order
    reads        \* history: how len(manager.active) has been read outside the manager

regVars == <<active, lock, pc, welcome, bc, sendlog, joined, leaves>>
callVars == <<ws, closeAfter>>
envVars == <<peer, budget>>
fixedVars == <<name, driver>>
histVars == <<dead, delivered, reads>>
vars == <<active, lock, waiters, pc, ws, bc, welcome, closeAfter, peer,
          budget, name, driver, sendlog, joined, leaves, accepted,
          dead, delivered, reads>>

\* ---- pure helpers ----
Range(s) == {s[i] : i \in 1..Len(s)}

Count(s, x) == Cardinality({i \in 1..Len(s) : s[i] = x})

\* list.remove(x): deletes the first occurrence
ListRemove(s, x) ==
    LET i == CHOOSE k \in 1..Len(s) : s[k] = x /\ \A j \in 1..(k - 1) : s[j] # x
    IN SubSeq(s, 1, i - 1) \o SubSeq(s, i + 1, Len(s))

\* f"{name}: {message}"
FormatText(n, m) == n \o ": " \o m

\* f"Bienvenue {name}, il y a {len(manager.active)} connecte(s)."
WelcomeText(n, k) == "Bienvenue " \o n \o ", il y a " \o ToString(k) \o " connecte(s)."

\* ---- ConnectionManager: the statements inside the lock ----

\* a connect that appends twice
connect_appendTwice(a, w) == Append(Append(a, w), w)

\* connect: self.active.append(websocket)
connect_append(a, w) == Append(a, w)

\* a disconnect that pops the last element instead of removing its argument
disconnect_removeLast(a, w) == IF w \in Range(a) THEN SubSeq(a, 1, Len(a) - 1) ELSE a

\* a disconnect that forgets the removal
disconnect_removeNothing(a, w) == a

\* disconnect: if websocket in self.active: self.active.remove(websocket)
disconnect_remove(a, w) == IF w \in Range(a) THEN ListRemove(a, w) ELSE a

\* a broadcast without the sender test
IsSenderNever(connection, sender) == FALSE

\* broadcast: `if connection is sender: continue`
IsSender(connection, sender) == connection = sender

\* a loop that leaves at the sender (`break` for `continue`)
NextTargetBreak(snap, i, sender) ==
    IF i <= Len(snap) /\ snap[i] # sender THEN i ELSE Len(snap) + 1

\* broadcast: index of the next element of the snapshot that gets a send_text,
\* from position i on; Len(snap) + 1 when the for loop is over
NextTarget(snap, i, sender) ==
    LET rest == {j \in i..Len(snap) : ~IsSender(snap[j], sender)}
    IN IF rest = {} THEN Len(snap) + 1
       ELSE CHOOSE j \in rest : \A k \in rest : j <= k

\* an except clause that forgets the websocket whose send failed
OnSendErrorIgnore(to_remove, connection) == to_remove

\* broadcast: `except Exception: to_remove.append(connection)`
OnSendError(to_remove, connection) == Append(to_remove, connection)

\* a cleanup loop that stops after the first connection it marked
CleanupFirstOnly(a, to_remove) ==
    IF to_remove = <<>> \/ Head(to_remove) \notin Range(a) THEN a
    ELSE ListRemove(a, Head(to_remove))

\* a broadcast that never removes the connections it marked
CleanupNothing(a, to_remove) == a

\* broadcast: for r in to_remove: if r in self.active: self.active.remove(r)
RECURSIVE Cleanup(_, _)
Cleanup(a, to_remove) ==
    IF to_remove = <<>> THEN a
    ELSE Cleanup(IF Head(to_remove) \in Range(a) THEN ListRemove(a, Head(to_remove)) ELSE a,
                 Tail(to_remove))

\* a count read before the handler's own join
WelcomeCountBefore(before, after) == Len(before)

\* len(manager.active) as the handler reads it for the welcome message: connect
\* has returned and nothing suspends between its append and this read
WelcomeCount(before, after) == Len(after)

NoFrame == [phase |-> "none", id |-> 0, message |-> "", sender |-> None, snap |-> <<>>,
            i |-> 1, to_remove |-> <<>>]

\* history: the number of the receive_text (of the direct call) a broadcast comes from
CallNumber == (IF driver = "api" THEN MaxCalls ELSE MaxMsgs) - budget + 1

\* a lock that is given back before the block runs
LockAfterReleased(t, over) == None

\* a lock that is kept when the `async with` block is left
LockAfterKept(t, over) == t

\* `async with self.lock`: the task holds the lock until it leaves the block
LockAfter(t, over) == IF over THEN None ELSE t

\* where a task goes when a manager call returns
Return(t, next) == IF driver = "api" THEN "idle" ELSE next

\* an acquire() that never waits
LockFreeAlways == TRUE

\* asyncio.Lock.acquire() returns at once only when the lock is free and nobody waits
LockFree == lock = None /\ waiters = <<>>

\* acquire() suspends: the task queues behind the earlier waiters
Wait(t, label) ==
    /\ waiters' = Append(waiters, t)
    /\ pc' = [pc EXCEPT ![t] = label]
    /\ UNCHANGED <<active, lock, welcome, joined, leaves>>

\* connect, lines 39-40, and the handler up to `await websocket.send_text` (line 98)
ConnectBody(t, w) ==
    /\ active' = connect_append(active, w)
    /\ lock' = LockAfter(t, TRUE)
    /\ joined' = joined \cup {w}
    /\ pc' = [pc EXCEPT ![t] = Return(t, "welcome")]
    /\ welcome' = IF driver = "session"
                  THEN [welcome EXCEPT ![t] =
                           WelcomeText(name[t], WelcomeCount(active, active'))]
                  ELSE welcome
    /\ reads' = IF driver = "session"
                THEN [reads EXCEPT !.unlocked = @ \/ lock' # t]
                ELSE reads
    /\ UNCHANGED <<bc, sendlog, leaves>>

\* disconnect, lines 43-45, and the handler up to close() or its end
DisconnectBody(t, w, ca) ==
    /\ active' = disconnect_remove(active, w)
    /\ lock' = LockAfter(t, TRUE)
    /\ joined' = joined \ {w}
    /\ leaves' = [leaves EXCEPT ![t] = [n |-> @.n + 1,
                     last |-> IF w \in Range(active) THEN "removed" ELSE "absent"]]
    /\ pc' = [pc EXCEPT ![t] = Return(t, IF ca THEN "close" ELSE "Closed")]
    /\ welcome' = [welcome EXCEPT ![t] = ""]
    /\ bc' = [bc EXCEPT ![t] = NoFrame]
    /\ sendlog' = [sendlog EXCEPT ![t] = <<>>]

\* broadcast, lines 48-54: snapshot, then run to the first send_text; a pass with
\* nobody to send to runs lines 58-60 and releases the lock without suspending
BroadcastBody(t, id, m, sender) ==
    LET snap == active
        j == NextTarget(snap, 1, sender)
        over == j > Len(snap)
    IN /\ sendlog' = [sendlog EXCEPT ![t] = <<>>]
       /\ bc' = [bc EXCEPT ![t] = [phase |-> IF over THEN "done" ELSE "sending",
                                   id |-> id, message |-> m, sender |-> sender, snap |-> snap,
                                   i |-> j, to_remove |-> <<>>]]
       /\ active' = IF over THEN Cleanup(active, <<>>) ELSE active
       /\ lock' = LockAfter(t, over)
       /\ pc' = [pc EXCEPT ![t] = IF over THEN Return(t, "receive") ELSE "broadcast.send"]
       /\ UNCHANGED <<welcome, joined, leaves>>

EnterConnect(t, w) ==
    IF LockFree THEN ConnectBody(t, w) /\ UNCHANGED waiters
    ELSE Wait(t, "connect.lock") /\ UNCHANGED <<bc, sendlog, reads>>

EnterDisconnect(t, w, ca) ==
    IF LockFree THEN DisconnectBody(t, w, ca) /\ UNCHANGED waiters
    ELSE /\ waiters' = Append(waiters, t)
         /\ pc' = [pc EXCEPT ![t] = "disconnect.lock"]
         /\ welcome' = [welcome EXCEPT ![t] = ""]
         /\ bc' = [bc EXCEPT ![t] = NoFrame]
         /\ sendlog' = [sendlog EXCEPT ![t] = <<>>]
         /\ UNCHANGED <<active, lock, joined, leaves>>

EnterBroadcast(t, m, sender) ==
    IF LockFree THEN BroadcastBody(t, CallNumber, m, sender) /\ UNCHANGED waiters
    ELSE /\ Wait(t, "broadcast.lock")
         /\ sendlog' = [sendlog EXCEPT ![t] = <<>>]
         /\ bc' = [bc EXCEPT ![t] = [NoFrame EXCEPT !.phase = "waiting", !.id = CallNumber,
                                                    !.message = m, !.sender = sender]]

\* ---- steps of the manager's coroutines ----

\* `await websocket.accept()` returns: connect goes on to the lock
AcceptOk(t) ==
    /\ pc[t] = "accept"
    /\ peer[ws[t]] = "open"
    /\ accepted' = accepted \cup {ws[t]}
    /\ EnterConnect(t, ws[t])
    /\ UNCHANGED <<callVars, envVars, fixedVars, dead, delivered>>

\* a connect that registers the websocket before it awaits accept()
AcceptFailAfterAppend(t) ==
    /\ pc[t] = "accept"
    /\ peer[ws[t]] # "open" \/ ws[t] \in accepted
    /\ pc' = [pc EXCEPT ![t] = Return(t, "Rejected")]
    /\ active' = connect_append(active, ws[t])
    /\ UNCHANGED <<lock, waiters, welcome, bc, sendlog, joined, leaves, accepted,
                   callVars, envVars, fixedVars, histVars>>

\* accept() raises (the peer is gone, or the connection refuses a second accept):
\* connect is outside the handler's try, the exception leaves the coroutine
AcceptFail(t) ==
    /\ pc[t] = "accept"
    /\ peer[ws[t]] # "open" \/ ws[t] \in accepted
    /\ pc' = [pc EXCEPT ![t] = Return(t, "Rejected")]
    /\ UNCHANGED <<active, lock, waiters, welcome, bc, sendlog, joined, leaves, accepted,
                   callVars, envVars, fixedVars, histVars>>

\* a task suspended in acquire() is woken, once the lock is released, in arrival order
WakeConnect(t) ==
    /\ pc[t] = "connect.lock"
    /\ lock = None /\ waiters # <<>> /\ Head(waiters) = t
    /\ waiters' = Tail(waiters)
    /\ ConnectBody(t, ws[t])
    /\ UNCHANGED <<callVars, envVars, fixedVars, accepted, dead, delivered>>

WakeDisconnect(t) ==
    /\ pc[t] = "disconnect.lock"
    /\ lock = None /\ waiters # <<>> /\ Head(waiters) = t
    /\ waiters' = Tail(waiters)
    /\ DisconnectBody(t, ws[t], closeAfter[t])
    /\ UNCHANGED <<callVars, envVars, fixedVars, accepted, histVars>>

WakeBroadcast(t) ==
    /\ pc[t] = "broadcast.lock"
    /\ lock = None /\ waiters # <<>> /\ Head(waiters) = t
    /\ waiters' = Tail(waiters)
    /\ BroadcastBody(t, bc[t].id, bc[t].message, bc[t].sender)
    /\ UNCHANGED <<callVars, envVars, fixedVars, accepted, histVars>>

\* `await connection.send_text(message)` inside broadcast returns (ok) or raises;
\* the loop runs on to the next send_text, or to the cleanup and the release
SendStep(t, ok) ==
    LET f == bc[t]
        c == f.snap[f.i]
        rem == IF ok THEN f.to_remove ELSE OnSendError(f.to_remove, c)
        j == NextTarget(f.snap, f.i + 1, f.sender)
        over == j > Len(f.snap)
    IN /\ pc[t] = "broadcast.send"
       /\ ~ok => peer[c] # "open"
       /\ sendlog' = [sendlog EXCEPT ![t] =
                         Append(@, [to |-> c, text |-> f.message, ok |-> ok])]
       /\ bc' = [bc EXCEPT ![t].i = j, ![t].to_remove = rem,
                           ![t].phase = IF over THEN "done" ELSE "sending"]
       /\ active' = IF over THEN Cleanup(active, rem) ELSE active
       /\ lock' = LockAfter(t, over)
       /\ dead' = IF ok THEN dead ELSE dead \cup {c}
       /\ delivered' = IF ok THEN [delivered EXCEPT ![c] =
                                      Append(@, [id |-> f.id, from |-> f.sender])]
                       ELSE delivered
       /\ pc' = [pc EXCEPT ![t] = IF over THEN Return(t, "receive") ELSE "broadcast.send"]
       /\ UNCHANGED <<waiters, welcome, joined, leaves, accepted, callVars, envVars,
                      fixedVars, reads>>

\* a broadcast without the try/except: the exception of a failing send leaves the
\* pass (the lock is released on the way out) and ends the sender's handler
SendDoneRaise(t, ok) ==
    IF ok THEN SendStep(t, TRUE)
    ELSE /\ pc[t] = "broadcast.send"
         /\ peer[bc[t].snap[bc[t].i]] # "open"
         /\ lock' = None
         /\ pc' = [pc EXCEPT ![t] = Return(t, "close")]
         /\ bc' = [bc EXCEPT ![t] = NoFrame]
         /\ sendlog' = [sendlog EXCEPT ![t] = <<>>]
         /\ UNCHANGED <<active, waiters, welcome, joined, leaves, accepted, callVars,
                        envVars, fixedVars, histVars>>

\* broadcast's try/except around send_text: a failing send is caught inside the pass
SendDone(t, ok) == SendStep(t, ok)

\* ---- steps of the handler websocket_broadcast ----

\* a handler whose `except Exception` closes without calling disconnect
ExceptNoLeave(t, kind) ==
    IF kind = "disconnect"
    THEN /\ closeAfter' = [closeAfter EXCEPT ![t] = FALSE]
         /\ EnterDisconnect(t, ws[t], FALSE)
         /\ UNCHANGED ws
    ELSE /\ pc' = [pc EXCEPT ![t] = "close"]
         /\ UNCHANGED <<active, lock, waiters, welcome, bc, sendlog, joined, leaves,
                        callVars>>

\* the handler's except clauses (lines 104-108): both call manager.disconnect
Except(t, kind) ==
    /\ closeAfter' = [closeAfter EXCEPT ![t] = (kind = "error")]
    /\ EnterDisconnect(t, ws[t], kind = "error")
    /\ UNCHANGED ws

\* the welcome send_text returns: the handler enters the loop and awaits receive_text
WelcomeSent(t) ==
    /\ driver = "session" /\ pc[t] = "welcome"
    /\ pc' = [pc EXCEPT ![t] = "receive"]
    /\ welcome' = [welcome EXCEPT ![t] = ""]
    /\ UNCHANGED <<active, lock, waiters, bc, sendlog, joined, leaves, accepted,
                   callVars, envVars, fixedVars, histVars>>

\* the welcome send_text raises WebSocketDisconnect or another exception
WelcomeFail(t, kind) ==
    /\ driver = "session" /\ pc[t] = "welcome"
    /\ peer[ws[t]] # "open"
    /\ Except(t, kind)
    /\ UNCHANGED <<accepted, envVars, fixedVars, histVars>>

\* a handler that reads its next message while its broadcast is still running
\* (the broadcast started as a task of its own, not awaited)
ReceiveTextEarly(t, m) ==
    /\ driver = "session" /\ pc[t] \in {"receive", "broadcast.send"}
    /\ budget > 0
    /\ budget' = budget - 1
    /\ EnterBroadcast(t, FormatText(name[t], m), ws[t])
    /\ UNCHANGED <<peer, accepted, callVars, fixedVars, histVars>>

\* receive_text returns m, a message the client sent while it was connected (it
\* may be gone by now): text = f"{name}: {message}", manager.broadcast(text, websocket)
ReceiveText(t, m) ==
    /\ driver = "session" /\ pc[t] = "receive"
    /\ budget > 0
    /\ budget' = budget - 1
    /\ EnterBroadcast(t, FormatText(name[t], m), ws[t])
    /\ UNCHANGED <<peer, accepted, callVars, fixedVars, histVars>>

\* receive_text raises: WebSocketDisconnect (the peer closed) or another exception
\* (the transport failed)
ReceiveFail(t, kind) ==
    /\ driver = "session" /\ pc[t] = "receive"
    /\ peer[ws[t]] = "gone"
    /\ Except(t, kind)
    /\ UNCHANGED <<accepted, envVars, fixedVars, histVars>>

\* a close() whose exception leaves the handler
AfterCloseRaise(ok) == IF ok THEN "Closed" ELSE "Crashed"

\* `try: await websocket.close()` / `except Exception: pass`: the handler ends
\* whether close() returned (ok) or raised
AfterClose(ok) == "Closed"

\* `await websocket.close()` returns or raises: the handler ends
Close(t, ok) ==
    /\ driver = "session" /\ pc[t] = "close"
    /\ pc' = [pc EXCEPT ![t] = AfterClose(ok)]
    /\ closeAfter' = [closeAfter EXCEPT ![t] = FALSE]
    /\ UNCHANGED <<active, lock, waiters, welcome, bc, sendlog, joined, leaves, accepted,
                   ws, envVars, fixedVars, histVars>>

\* ---- the clients ----

\* the client goes away: it closes the connection, or the transport fails
PeerGone(c) ==
    /\ peer[c] = "open"
    /\ peer' = [peer EXCEPT ![c] = "gone"]
    /\ UNCHANGED <<regVars, waiters, callVars, accepted, budget, fixedVars, histVars>>

\* ---- the program: one handler per client ----

Init ==
    /\ active = <<>>
    /\ lock = None
    /\ waiters = <<>>
    /\ pc = [t \in Tasks |-> "accept"]
    /\ ws = [t \in Tasks |-> t]
    /\ bc = [t \in Tasks |-> NoFrame]
    /\ welcome = [t \in Tasks |-> ""]
    /\ closeAfter = [t \in Tasks |-> FALSE]
    /\ peer = [c \in Conns |-> "open"]
    /\ budget = MaxMsgs
    /\ name = [t \in Tasks |-> NameOf(t)]
    /\ driver = "session"
    /\ sendlog = [t \in Tasks |-> <<>>]
    /\ joined = {}
    /\ leaves = [t \in Tasks |-> [n |-> 0, last |-> "none"]]
    /\ accepted = {}
    /\ dead = {}
    /\ delivered = [c \in Conns |-> <<>>]
    /\ reads = [unlocked |-> FALSE, concurrent |-> FALSE]

Next ==
    \/ \E t \in Tasks : AcceptOk(t)
    \/ \E t \in Tasks : AcceptFail(t)
    \/ \E t \in Tasks : WakeConnect(t)
    \/ \E t \in Tasks : WakeDisconnect(t)
    \/ \E t \in Tasks : WakeBroadcast(t)
    \/ \E t \in Tasks, ok \in BOOLEAN : SendDone(t, ok)
    \/ \E t \in Tasks : WelcomeSent(t)
    \/ \E t \in Tasks, kind \in {"disconnect", "error"} : WelcomeFail(t, kind)
    \/ \E t \in Tasks, m \in Msgs : ReceiveText(t, m)
    \/ \E t \in Tasks, kind \in {"disconnect", "error"} : ReceiveFail(t, kind)
    \/ \E t \in Tasks, ok \in BOOLEAN : Close(t, ok)
    \/ \E c \in Conns : PeerGone(c)

Spec == Init /\ [][Next]_vars

\* ---- the handlers together with the metrics endpoint ----

\* GET /metrics: the endpoint's task reads len(manager.active) and returns it; it
\* takes no lock, so it runs whoever holds the lock at that moment
Metrics ==
    /\ driver = "session"
    /\ reads' = [unlocked |-> TRUE, concurrent |-> reads.concurrent \/ lock # None]
    /\ UNCHANGED <<regVars, waiters, callVars, accepted, envVars, fixedVars, dead, delivered>>

NextMetrics == Next \/ Metrics

SpecMetrics == Init /\ [][NextMetrics]_vars

\* ---- the manager called directly: any task, any websocket, any order ----

\* connect calls that have not appended yet
PendingConnects == Cardinality({t \in Tasks : pc[t] \in {"accept", "connect.lock"}})

\* manager.connect(w)
CallConnect(t, w) ==
    /\ driver = "api" /\ pc[t] = "idle"
    /\ Len(active) + PendingConnects < MaxActive
    /\ budget > 0
    /\ budget' = budget - 1
    /\ ws' = [ws EXCEPT ![t] = w]
    /\ pc' = [pc EXCEPT ![t] = "accept"]
    /\ UNCHANGED <<active, lock, waiters, welcome, bc, sendlog, joined, leaves, accepted,
                   closeAfter, peer, fixedVars, histVars>>

\* manager.disconnect(w)
CallDisconnect(t, w) ==
    /\ driver = "api" /\ pc[t] = "idle"
    /\ budget > 0
    /\ budget' = budget - 1
    /\ ws' = [ws EXCEPT ![t] = w]
    /\ EnterDisconnect(t, w, FALSE)
    /\ UNCHANGED <<accepted, closeAfter, peer, fixedVars, histVars>>

\* manager.broadcast(m, sender), sender a websocket or None
CallBroadcast(t, m, sender) ==
    /\ driver = "api" /\ pc[t] = "idle"
    /\ budget > 0
    /\ budget' = budget - 1
    /\ ws' = [ws EXCEPT ![t] = sender]
    /\ EnterBroadcast(t, m, sender)
    /\ UNCHANGED <<accepted, closeAfter, peer, fixedVars, histVars>>

InitReg ==
    /\ active = <<>>
    /\ lock = None
    /\ waiters = <<>>
    /\ pc = [t \in Tasks |-> "idle"]
    /\ ws = [t \in Tasks |-> None]
    /\ bc = [t \in Tasks |-> NoFrame]
    /\ welcome = [t \in Tasks |-> ""]
    /\ closeAfter = [t \in Tasks |-> FALSE]
    /\ peer = [c \in Conns |-> "open"]
    /\ budget = MaxCalls
    /\ name = [t \in Tasks |-> NameOf(t)]
    /\ driver = "api"
    /\ sendlog = [t \in Tasks |-> <<>>]
    /\ joined = {}
    /\ leaves = [t \in Tasks |-> [n |-> 0, last |-> "none"]]
    /\ accepted = {}
    /\ dead = {}
    /\ delivered = [c \in Conns |-> <<>>]
    /\ reads = [unlocked |-> FALSE, concurrent |-> FALSE]

NextReg ==
    \/ \E t \in Callers, w \in Conns : CallConnect(t, w)
    \/ \E t \in Callers, w \in Conns : CallDisconnect(t, w)
    \/ \E t \in Callers, m \in Msgs, sender \in Conns \cup {None} : CallBroadcast(t, m, sender)
    \/ \E t \in Tasks : AcceptOk(t)
    \/ \E t \in Tasks : AcceptFail(t)
    \/ \E t \in Tasks : WakeConnect(t)
    \/ \E t \in Tasks : WakeDisconnect(t)
    \/ \E t \in Tasks : WakeBroadcast(t)
    \/ \E t \in Tasks, ok \in BOOLEAN : SendDone(t, ok)
    \/ \E c \in Conns : PeerGone(c)

SpecReg == InitReg /\ [][NextReg]_vars

\* join and leave calls only
NextJoinLeave ==
    \/ \E t \in Callers, w \in Conns : CallConnect(t, w)
    \/ \E t \in Callers, w \in Conns : CallDisconnect(t, w)
    \/ \E t \in Tasks : AcceptOk(t)
    \/ \E t \in Tasks : AcceptFail(t)
    \/ \E c \in Conns : PeerGone(c)

SpecJoinLeave == InitReg /\ [][NextJoinLeave]_vars

\* the handlers under the event loop's scheduling: a coroutine that can run is
\* run, every awaited accept, send_text, receive_text and close returns or raises
HandlerStep(t) ==
    \/ AcceptOk(t) \/ AcceptFail(t)
    \/ WakeConnect(t) \/ WakeDisconnect(t) \/ WakeBroadcast(t)
    \/ \E ok \in BOOLEAN : SendDone(t, ok)
    \/ WelcomeSent(t)
    \/ \E kind \in {"disconnect", "error"} : WelcomeFail(t, kind)
    \/ \E m \in Msgs : ReceiveText(t, m)
    \/ \E kind \in {"disconnect", "error"} : ReceiveFail(t, kind)
    \/ \E ok \in BOOLEAN : Close(t, ok)

FairSpec == Init /\ [][Next]_vars /\ \A t \in Tasks : WF_vars(HandlerStep(t))

\* ---- properties ----

Targets(t) == {sendlog[t][k].to : k \in 1..Len(sendlog[t])}
Failed(t) == {sendlog[t][k].to : k \in {i \in 1..Len(sendlog[t]) : ~sendlog[t][i].ok}}
Attempts(t, c) == Cardinality({k \in 1..Len(sendlog[t]) : sendlog[t][k].to = c})
PassEnds(t) == bc[t].phase = "sending" /\ bc'[t].phase = "done"

\* C1: a broadcast pass started by a handler's inbound message never attempts a
\* send on the handler's own websocket
C1_NoSelfDelivery ==
    \A t \in Tasks : \A k \in 1..Len(sendlog[t]) : sendlog[t][k].to # t

\* a finished pass whose snapshot holds the sender before a connection it sent to
C1_Witness ==
    \E t \in Tasks :
        /\ bc[t].phase = "done" /\ Len(bc[t].snap) = 3
        /\ bc[t].snap[1] = t
        /\ Len(sendlog[t]) = 2

\* C2: when a send fails in a pass, every connection of the snapshot other than the
\* sender has had its send attempt when the pass ends, and the failing connections
\* are not in the registry when the pass ends
C2_FaultIsolation ==
    \A t \in Tasks :
        (bc[t].phase = "done" /\ Failed(t) # {}) =>
            /\ Targets(t) = Range(bc[t].snap) \ {t}
            /\ Failed(t) \cap Range(active) = {}

\* a finished pass whose first send failed and whose second send succeeded
C2_Witness ==
    \E t \in Tasks :
        /\ bc[t].phase = "done" /\ pc[t] = "receive"
        /\ Len(sendlog[t]) = 2
        /\ ~sendlog[t][1].ok /\ sendlog[t][2].ok
        /\ sendlog[t][2].to \in Range(active)

\* C3: the pass for inbound message m of the handler named n takes the registry as
\* it is when the pass starts, and attempts exactly one send of "n: m" to each
\* connection of it other than the sender, and none to any other connection
C3_RelayCompleteness ==
    \A t \in Tasks :
        /\ bc[t].phase = "sending" => bc[t].snap = active
        /\ \A k \in 1..Len(sendlog[t]) :
              \E m \in Msgs : sendlog[t][k].text = NameOf(t) \o ": " \o m
        /\ \A k \in 1..Len(sendlog[t]) : sendlog[t][k].text = sendlog[t][1].text
        /\ \A c \in Conns : Attempts(t, c) <= 1
        /\ Targets(t) \subseteq Range(bc[t].snap) \ {t}
        /\ bc[t].phase = "done" => Targets(t) = Range(bc[t].snap) \ {t}

\* Bob's handler (websocket 2) relayed "hi" to both other members of <<1, 2, 3>>
C3_Witness ==
    /\ bc[2].phase = "done" /\ bc[2].snap = <<1, 2, 3>>
    /\ Len(sendlog[2]) = 2
    /\ sendlog[2][1] = [to |-> 1, text |-> "Bob: hi", ok |-> TRUE]
    /\ sendlog[2][2] = [to |-> 3, text |-> "Bob: hi", ok |-> TRUE]

\* C4: after any sequence of connect and disconnect calls the length of the
\* registry is the number of distinct websockets joined and not yet left
C4_RegistrySize == Len(active) = Cardinality(joined)

\* C5: with the registry driven by the handlers, no websocket is in it twice
C5_AtMostOnce == \A c \in Conns : Count(active, c) <= 1

\* all three clients are registered
C5_Witness == Len(active) = 3 /\ Range(active) = {1, 2, 3}

\* C6: a completed disconnect(w) with w not in the registry leaves the registry as
\* it is; with w in the registry it removes one entry of w (w is gone if it was
\* there once) and keeps every other entry, in order; the call returns to its caller
C6_IdempotentLeave ==
    [][\A t \in Tasks :
          leaves'[t].n # leaves[t].n =>
              LET w == ws'[t]
                  others(a) == SelectSeq(a, LAMBDA x : x # w)
              IN /\ pc'[t] = "idle"
                 /\ w \notin Range(active) => active' = active
                 /\ w \in Range(active) =>
                       /\ Count(active', w) = Count(active, w) - 1
                       /\ others(active') = others(active)
                       /\ Len(active') = Len(active) - 1]_vars

\* a disconnect of a websocket that a finished pass had marked and removed found it
\* absent, with another websocket still registered
C6_Witness ==
    \E t \in Callers, u \in Callers :
        /\ pc[t] = "idle" /\ leaves[t].n >= 1 /\ leaves[t].last = "absent"
        /\ bc[u].phase = "done" /\ ws[t] \in Failed(u)
        /\ ws[t] \notin Range(active) /\ active # <<>>

\* C7: the welcome text a handler builds when its join takes effect carries the
\* registry length right after its own append: one more than before, at least 1,
\* with the handler's websocket the last entry
C7_WelcomeCount ==
    [][\A t \in Tasks :
          (welcome[t] = "" /\ welcome'[t] # "") =>
              /\ welcome'[t] = "Bienvenue " \o NameOf(t) \o ", il y a "
                                  \o ToString(Len(active) + 1) \o " connecte(s)."
              /\ Len(active') = Len(active) + 1
              /\ active'[Len(active')] = t]_vars

\* Bob joins second and is told there are 2
C7_Witness ==
    /\ active = <<1, 2>>
    /\ pc[2] = "welcome"
    /\ welcome[2] = "Bienvenue Bob, il y a 2 connecte(s)."

\* C8: a handler completes at most one disconnect, none while it is joined, exactly
\* one by the time it is Closed; a Closed handler's websocket is not registered and
\* a Closed handler stays Closed
C8_SessionTermination ==
    /\ [](\A t \in Tasks :
            /\ leaves[t].n <= 1
            /\ pc[t] \in {"accept", "connect.lock", "welcome", "receive",
                          "broadcast.lock", "broadcast.send", "disconnect.lock",
                          "Rejected"} => leaves[t].n = 0
            /\ pc[t] \in {"close", "Closed"} => leaves[t].n = 1 /\ t \notin Range(active))
    /\ [][\A t \in Tasks : pc[t] = "Closed" => pc'[t] = "Closed"]_vars

\* a handler is Closed after a disconnect that removed its websocket, another after
\* one that found its websocket already removed
C8_Witness ==
    \E t \in Tasks, u \in Tasks :
        /\ pc[t] = "Closed" /\ leaves[t].last = "removed"
        /\ pc[u] = "Closed" /\ leaves[u].last = "absent"

\* C9: a peer that is gone stays gone, and from some point on no websocket whose
\* peer is gone is in the registry: once its peer is gone, a websocket is
\* eventually out of the registry for good
C9_EventualUnregistration ==
    /\ [][\A c \in Conns : peer[c] = "gone" => peer'[c] = "gone"]_vars
    /\ \A c \in Conns : <>[](peer[c] = "gone" => c \notin Range(active))

\* a websocket whose peer is gone was removed by the cleanup of another handler's
\* pass while its own handler still waits in receive_text
C9_Witness ==
    \E c \in Conns, u \in Tasks :
        /\ peer[c] = "gone" /\ pc[c] = "receive" /\ c \notin Range(active)
        /\ bc[u].phase = "done" /\ c \in Failed(u)

\* C10: a send that fails in a pass, or a receive fault, leaves every other handler
\* where it is; the sender of a pass stays in its loop and stays registered; a step
\* removes from the registry only the websockets whose send failed in the pass that
\* ends, or the websocket of the handler whose disconnect completes
C10_FaultContainment ==
    [][\A t \in Tasks :
          /\ pc[t] = "broadcast.send" => pc'[t] \in {"broadcast.send", "receive"}
          /\ (sendlog'[t] # sendlog[t] \/ leaves'[t] # leaves[t]) =>
                \A u \in Tasks \ {t} : pc'[u] = pc[u]
          /\ PassEnds(t) =>
                /\ pc'[t] = "receive"
                /\ t \in Range(active) => t \in Range(active')
                /\ Range(active) \ Range(active') = Failed(t)' \cap Range(active)
          /\ (~\E u \in Tasks : PassEnds(u)) =>
                Range(active) \ Range(active') \subseteq
                    {u \in Tasks : leaves'[u].n # leaves[u].n}]_vars

\* a pass in which a send failed has ended: its sender is registered and receiving
\* again, and a third handler is still joined
C10_Witness ==
    \E t \in Tasks, u \in Tasks :
        /\ bc[t].phase = "done" /\ pc[t] = "receive" /\ Failed(t) # {}
        /\ t \in Range(active)
        /\ u # t /\ u \notin Failed(t) /\ pc[u] = "receive" /\ u \in Range(active)

\* a send attempt of t's pass is made in this step
SendAttempt(t) == Len(sendlog'[t]) = Len(sendlog[t]) + 1
LastSend(t) == sendlog'[t][Len(sendlog'[t])]

\* C11: once a send to a websocket has failed in a pass, no send is attempted on it
\* again, by that pass or by a later one, and it is in the registry only until the
\* pass in which it failed ends; the failure is reported to nobody: the step in which
\* a send fails makes that one attempt only, and every text a pass sends is the
\* formatted inbound message of its sender
C11_NoRetryAfterFailure ==
    [][\A t \in Tasks :
          /\ SendAttempt(t) =>
                /\ LastSend(t).to \notin dead
                /\ \E m \in Msgs : LastSend(t).text = FormatText(name[t], m)
                /\ \A u \in Tasks \ {t} : sendlog'[u] = sendlog[u] /\ welcome'[u] = welcome[u]
          /\ \A c \in dead' \cap Range(active') :
                \E u \in Tasks : bc'[u].phase = "sending" /\ c \in Failed(u)']_vars

\* a send to X failed in the pass of the first message; the pass of the second message
\* has ended, it sent to another websocket and not to X, whose handler still waits
C11_Witness ==
    \E t \in Tasks, x \in Conns :
        /\ x \in dead /\ pc[x] = "receive"
        /\ bc[t].phase = "done" /\ bc[t].id = MaxMsgs
        /\ Targets(t) # {} /\ x \notin Targets(t)

\* C12: a handler whose accept() fails never touches the registry: the failing step
\* leaves the registry, the lock and its queue as they are, the handler is over for
\* good, and its websocket is never registered, never waits for the lock, never
\* holds it
C12_HandshakeFailure ==
    /\ [](\A t \in Tasks : pc[t] = "Rejected" =>
            /\ ws[t] \notin Range(active) /\ ws[t] \notin joined /\ ws[t] \notin accepted
            /\ t \notin Range(waiters) /\ lock # t /\ leaves[t].n = 0)
    /\ [][\A t \in Tasks :
            /\ pc[t] = "Rejected" => pc'[t] = "Rejected"
            /\ pc[t] # "Rejected" /\ pc'[t] = "Rejected" =>
                  /\ pc[t] = "accept"
                  /\ active' = active /\ lock' = lock /\ waiters' = waiters
                  /\ joined' = joined]_vars

\* the accept of one handler has failed while another websocket is registered and a
\* third handler holds the lock in a pass
C12_Witness ==
    \E t \in Tasks, u \in Tasks :
        /\ pc[t] = "Rejected"
        /\ lock = u /\ u # t
        /\ Len(active) = NumConn - 1

\* C13: the size of the registry is read only by a task that holds the lock, and
\* never while another task holds the lock in a pass; reads.unlocked records a read
\* made by a task that did not hold the lock (the handler's read for the welcome
\* text, the read of the metrics endpoint), reads.concurrent a read made while
\* another task held it
C13_ExclusiveAccess == ~reads.unlocked /\ ~reads.concurrent

\* C14: while a pass is sending, its task holds the lock and the registry is the
\* snapshot the pass took; no connect and no disconnect of another task completes
\* before the pass has ended. A websocket whose connect was requested meanwhile is
\* not registered and gets no send of the pass; at the end of the pass every
\* websocket of the snapshot but the sender has had its send attempt, also one whose
\* handler has been waiting to leave
C14_SnapshotConsistency ==
    /\ [](\A t \in Tasks : bc[t].phase = "sending" =>
            /\ lock = t /\ active = bc[t].snap
            /\ \A u \in Tasks \ {t} : pc[u] \in {"accept", "connect.lock"} =>
                  ws[u] \notin Range(active) /\ ws[u] \notin Targets(t))
    /\ [][\A t \in Tasks :
            /\ bc[t].phase = "sending" =>
                  \A u \in Tasks \ {t} :
                      /\ pc[u] = "connect.lock" => pc'[u] = "connect.lock"
                      /\ pc[u] = "disconnect.lock" => pc'[u] = "disconnect.lock"
                      /\ leaves'[u] = leaves[u]
                      /\ ws[u] \in joined' <=> ws[u] \in joined
            /\ PassEnds(t) =>
                  Targets(t)' = Range(bc[t].snap) \ {bc[t].sender}]_vars

\* a pass has ended that sent to a websocket whose handler had asked to leave while
\* the pass was running and still waits for the lock, behind or before a handler
\* that asked to join and is not registered yet
C14_Witness ==
    \E t \in Tasks, u \in Tasks, v \in Tasks :
        /\ bc[t].phase = "done" /\ v \in Targets(t)
        /\ pc[v] = "disconnect.lock" /\ v \in Range(active)
        /\ pc[u] = "connect.lock" /\ u \notin Range(active)

\* C15: the step that starts a pass and every step of the pass but its last leave
\* the registry as it is; the last step, after the last send attempt, takes out of
\* the registry exactly the websockets whose send failed in this pass, keeping the
\* order of the others: the sender and every websocket whose send succeeded are
\* still registered when the pass has ended
C15_PassEffect ==
    [][\A t \in Tasks :
          LET NotFailed(c) == c \notin Failed(t)' IN
          /\ bc'[t].phase = "sending" => active' = active
          /\ bc[t].phase # "sending" /\ bc'[t].phase = "done" /\ bc'[t] # bc[t] =>
                active' = active
          /\ PassEnds(t) =>
                /\ active' = SelectSeq(active, NotFailed)
                /\ \A c \in Targets(t)' \ Failed(t)' : c \in Range(active')
                /\ bc[t].sender \in Range(active) => bc[t].sender \in Range(active')]_vars

\* a pass has ended in which the sends to two websockets failed: both are out of the
\* registry and the sender alone is left
C15_Witness ==
    \E t \in Tasks :
        /\ bc[t].phase = "done" /\ Cardinality(Failed(t)) = 2
        /\ active = <<t>>

\* the coroutine of t is suspended in acquire()
Queued(t) == pc[t] \in {"connect.lock", "disconnect.lock", "broadcast.lock"}

\* C16: the lock is held only by a task whose pass is sending, so a task that holds
\* it never waits for it; the tasks in the lock's queue are the tasks suspended in
\* acquire(); the lock is free after the step that ends a pass, with or without
\* failed sends, and after every step that completes a connect or a disconnect; a
\* task leaves the queue only by acquiring the free lock as the first of the queue;
\* and, every handler step being taken eventually, every task that waits for the
\* lock eventually has acquired it: from some point on (the handlers receive
\* MaxMsgs messages in all) no task is left waiting
C16_LockProgress ==
    /\ [](/\ lock # None =>
               /\ pc[lock] = "broadcast.send" /\ bc[lock].phase = "sending"
               /\ lock \notin Range(waiters)
          /\ \A t \in Tasks : Queued(t) <=> t \in Range(waiters))
    /\ [][\A t \in Tasks :
            /\ PassEnds(t) => lock' = None
            /\ leaves'[t].n # leaves[t].n => lock' = None
            /\ ws[t] \in joined' \ joined => lock' = None
            /\ Queued(t) /\ ~Queued(t)' => lock = None /\ Head(waiters) = t]_vars
    /\ <>[](\A t \in Tasks : ~Queued(t))

\* two tasks wait in acquire() while a third holds the lock in a pass one send of
\* which has failed
C16_Witness ==
    \E t \in Tasks :
        /\ lock = t /\ Failed(t) # {}
        /\ Len(waiters) = 2 /\ \A u \in Tasks \ {t} : Queued(u)

\* C17: a handler attempts close() only on a fault that is not a clean disconnect,
\* and only in the step after its disconnect has completed: its websocket is out of
\* the registry before close() is awaited; whether close() returns or raises, the
\* handler ends Closed. After a clean disconnect the completed disconnect ends the
\* handler without a close(). A handler on its way out eventually is Closed
C17_FaultPath ==
    /\ [](\A t \in Tasks : pc[t] \in {"close", "Closed"} =>
            /\ ws[t] \notin Range(active) /\ leaves[t].n = 1 /\ ~Queued(t)
            /\ closeAfter[t] <=> pc[t] = "close")
    /\ [][\A t \in Tasks :
            /\ leaves'[t].n # leaves[t].n =>
                  /\ pc'[t] = IF closeAfter'[t] THEN "close" ELSE "Closed"
                  /\ ws[t] \notin Range(active')
            /\ pc[t] # "close" /\ pc'[t] = "close" => leaves'[t].n = leaves[t].n + 1
            /\ pc[t] = "close" => pc'[t] \in {"close", "Closed"}
            /\ pc[t] = "disconnect.lock" => pc'[t] \in {"disconnect.lock", "close", "Closed"}
            /\ pc[t] \in {"welcome", "receive"} =>
                  pc'[t] \in {"welcome", "receive", "broadcast.lock", "broadcast.send",
                              "disconnect.lock", "close", "Closed"}]_vars
    /\ <>[](\A t \in Tasks : pc[t] \notin {"disconnect.lock", "close"})

\* one handler is about to await close() after a fault, its websocket already out of
\* the registry; another has ended after a clean disconnect; the third is registered
C17_Witness ==
    \E t \in Tasks, u \in Tasks :
        /\ pc[t] = "close" /\ closeAfter[t] /\ leaves[t].last = "removed"
        /\ pc[u] = "Closed" /\ leaves[u].last = "removed"
        /\ Len(active) = 1

\* the websocket c was sent the broadcast a, with success, before the broadcast b
Before(c, a, b) ==
    \E i \in 1..Len(delivered[c]), j \in 1..Len(delivered[c]) :
        i < j /\ delivered[c][i].id = a /\ delivered[c][j].id = b

\* C18: at most one pass is sending at a time, its task holding the lock; and no
\* two websockets (nor one websocket registered twice) are sent two broadcasts in
\* opposite orders
C18_TotalOrder ==
    /\ \A t \in Tasks, u \in Tasks :
          bc[t].phase = "sending" /\ bc[u].phase = "sending" => t = u /\ lock = t
    /\ \A c \in Conns, d \in Conns :
          \A i \in 1..Len(delivered[c]), k \in 1..Len(delivered[d]) :
              \A j \in (i + 1)..Len(delivered[c]), l \in (k + 1)..Len(delivered[d]) :
                  delivered[c][i].id # delivered[c][j].id =>
                      ~(/\ delivered[d][l].id = delivered[c][i].id
                        /\ delivered[d][k].id = delivered[c][j].id)

\* two websockets have both been sent two broadcasts, called by two tasks, the
\* second of which is still waiting in acquire() or sending
C18_Witness ==
    \E c \in Conns, d \in Conns, a \in 1..MaxCalls, b \in 1..MaxCalls :
        /\ c # d /\ a # b
        /\ Before(c, a, b) /\ Before(d, a, b)
        /\ \E t \in Tasks, u \in Tasks : t # u /\ bc[t].id = a /\ bc[u].id = b

\* the handler of t takes its next inbound message in this step
Receives(t) == budget' # budget /\ bc'[t].id # bc[t].id

\* C19: a handler takes its next inbound message only when it awaits receive_text
\* and no pass of its own is waiting or sending; the message is later than every
\* message of this sender any websocket has been sent; so every websocket is sent
\* the messages of one sender in the order in which the sender's handler received
\* them
C19_SenderOrder ==
    /\ [][\A t \in Tasks : Receives(t) =>
            /\ pc[t] = "receive" /\ bc[t].phase \in {"none", "done"}
            /\ bc'[t].id > bc[t].id /\ bc'[t].sender = ws[t]
            /\ \A c \in Conns : \A k \in 1..Len(delivered[c]) :
                  delivered[c][k].from = ws[t] => delivered[c][k].id < bc'[t].id]_vars
    /\ [](\A c \in Conns : \A i \in 1..Len(delivered[c]), j \in 1..Len(delivered[c]) :
            i < j /\ delivered[c][i].from = delivered[c][j].from =>
                delivered[c][i].id < delivered[c][j].id)

\* two websockets have each been sent both messages of one sender
C19_Witness ==
    \E t \in Tasks, c \in Conns, d \in Conns :
        /\ c # d /\ bc[t].phase = "done" /\ bc[t].id = MaxMsgs
        /\ delivered[c] = <<[id |-> 1, from |-> t], [id |-> MaxMsgs, from |-> t]>>
        /\ delivered[d] = delivered[c]

\* the handler of t is in its loop: it awaits receive_text or runs a broadcast
InLoop(t) == pc[t] \in {"receive", "broadcast.lock", "broadcast.send"}

\* C20: a handler that is in its loop has its websocket in the registry
C20_JoinedImpliesRegistered ==
    \A t \in Tasks : InLoop(t) => ws[t] \in Range(active)

\* C20, amended: a handler that is in its loop has its websocket in the registry
\* unless a send to that websocket has failed in a pass, whose cleanup removes it;
\* the sender of a pass is in the snapshot of the pass unless such a send has failed
C20_JoinedRegisteredUnlessFailed ==
    \A t \in Tasks :
        /\ InLoop(t) /\ ws[t] \notin dead => ws[t] \in Range(active)
        /\ bc[t].phase = "sending" /\ ws[t] \notin dead => ws[t] \in Range(bc[t].snap)

\* a handler whose websocket the cleanup of another pass has removed is still in its
\* loop and runs a pass of its own, sending to a registered websocket
C20_Witness ==
    \E t \in Tasks :
        /\ pc[t] = "broadcast.send" /\ bc[t].phase = "sending"
        /\ ws[t] \in dead /\ ws[t] \notin Range(active)
        /\ \E c \in Range(active) : c \in Range(bc[t].snap)
====
